---- MODULE Spec2Model ----
(***************************************************************************)
(* Model of the SMS location bot: the zip-code gazetteer as the finders    *)
(* use it, the index built by DataUpdater.extractGeoJsonData, the          *)
(* PODsFinder pipeline (findPODs), SheltersFinder.findShelters, the /sms   *)
(* handler and the 'update' handler of the server.                         *)
(*                                                                         *)
(* Conventions.                                                            *)
(*  - A 5-character zip string is the natural number its digits spell      *)
(*    ("01001" is 1001, "70118" is 70118).  A zip value of a feature is    *)
(*    typed, [t |-> "string" | "number", v |-> n], because the code        *)
(*    compares it with === / includes.                                     *)
(*  - Coordinates are points of a line and lengths are millimetres (the    *)
(*    geodesic distance is reported to 0.001 m), so 1 mile is 1609344.     *)
(*  - A JavaScript string is a sequence of tokens, each with its length    *)
(*    in characters; the length of the string is the sum.                  *)
(*  - A JavaScript Map is the sequence of its [key, value] entries in      *)
(*    insertion order; a plain object is the sequence of its entries in    *)
(*    for-in order.                                                        *)
(***************************************************************************)
EXTENDS Integers, Sequences, FiniteSets, TLC

VARIABLES
    features,       \* the features parsed by the last fetch of the data URL
    sheltersFinder, \* sheltersFinder.locationData
    podsFinder,     \* podsFinder.locationData
    pc,             \* "idle", or "replied" while a reply is being delivered
    op,             \* the entry point that produced the reply
    sent,           \* its sentZipCodes argument
    threw,          \* whether it raised an exception instead of returning
    messages,       \* the array of messages it returned
    podsArray,      \* findPODs: podsArray after _dedupeArray
    sorts,          \* findPODs: the object sortedPODListsByLookupZip returned
    inputArr,       \* _dedupeArray: the array a caller holds and passes
    inputKey,       \* _dedupeArray: the name of the identity field
    out,            \* _dedupeArray: the arrays successive calls returned
    inFlight,       \* findPODs: the locals of a call that has not returned yet
    replacedKeys,   \* the keys of the index the last update replaced
    updater,        \* DataUpdater: updateInProgress and the updates it started
    formatter,      \* TwilioFormatter: a call, its messages argument, its result
    extractor,      \* ZipcodeExtractor: the matches of a message, the call's outcome
    pipeline        \* a finder's multi-code pipeline: its inputs and each stage's result

serverVars == <<features, sheltersFinder, podsFinder, pc, op, sent, threw,
                messages, podsArray, sorts>>

\* The variables of the helper functions exercised on their own.
dedupeVars == <<inputArr, inputKey, out>>

helperVars == <<dedupeVars, inFlight, replacedKeys, updater, formatter, extractor, pipeline>>

vars == <<serverVars, helperVars>>

(***************************************************************************)
(* Bounds of the model.                                                    *)
(***************************************************************************)
MaxFeatures == 4
MaxQuery == 2
MaxArr == 3
MaxUpdates == 2

(***************************************************************************)
(* Program constants.                                                      *)
(***************************************************************************)
Mile == 1609344
MaxSegment == 800
PodsPerLookup == 3
MileRadius == 30

Min(a, b) == IF a < b THEN a ELSE b
Abs(a) == IF a < 0 THEN 0 - a ELSE a
Digits(n) == IF n < 10 THEN 1 ELSE IF n < 100 THEN 2 ELSE IF n < 1000 THEN 3 ELSE 4

RECURSIVE Reverse(_)
Reverse(s) == IF s = <<>> THEN <<>> ELSE Append(Reverse(Tail(s)), Head(s))

RECURSIVE Flatten(_)
Flatten(ss) == IF ss = <<>> THEN <<>> ELSE Head(ss) \o Flatten(Tail(ss))

(***************************************************************************)
(* The gazetteer (package zipcodes): three known codes on a line, two of   *)
(* them within MileRadius of each other, one isolated whose string has a   *)
(* leading zero; every other string is unknown.                            *)
(***************************************************************************)
ZipTable == <<1001, 70118, 70471>>
UnknownZip == 0

Centroid(zip) ==
    CASE zip = 70118 -> 0
      [] zip = 70471 -> 40000000
      [] zip = 1001  -> 900000000
      [] OTHER       -> 0

Str(v) == [t |-> "string", v |-> v]
Num(v) == [t |-> "number", v |-> v]

\* Whether a property key names an entry of the table: a string as it is, a
\* number by its decimal form, which has five characters from 10000 on.
InTable(raw) ==
    /\ \E i \in 1..Len(ZipTable) : ZipTable[i] = raw.v
    /\ (raw.t = "number" => raw.v >= 10000)

\* zipcodes.lookup: the table entry, or undefined.
lookup(raw) ==
    IF InTable(raw)
    THEN [undefined |-> FALSE, zip |-> raw.v, latlon |-> Centroid(raw.v)]
    ELSE [undefined |-> TRUE, zip |-> 0, latlon |-> 0]

\* LatLon.distanceTo
distanceTo(a, b) == Abs(a - b)

\* zipcodes.radius: the codes of the table within miles of zip, in table order.
radius(zip, miles) ==
    SelectSeq(ZipTable,
              LAMBDA k : distanceTo(Centroid(zip), Centroid(k)) <= miles * Mile)

(***************************************************************************)
(* Map and plain-object helpers.                                           *)
(***************************************************************************)
MapKeys(m) == [i \in 1..Len(m) |-> m[i].key]
MapHas(m, k) == \E i \in 1..Len(m) : m[i].key = k
MapGet(m, k) == m[CHOOSE i \in 1..Len(m) : m[i].key = k].value
MapSet(m, k, v) ==
    IF MapHas(m, k)
    THEN [i \in 1..Len(m) |-> IF m[i].key = k THEN [key |-> k, value |-> v] ELSE m[i]]
    ELSE Append(m, [key |-> k, value |-> v])

\* An integer-like property name ("70118") is an array index; "01001" is not.
IsArrayIndex(k) == k >= 10000

\* obj[k] = v: an existing property keeps its place; for-in visits the array
\* indices in ascending numeric order, then the other names in creation order.
ObjectSet(obj, k, v) ==
    IF MapHas(obj, k)
    THEN [i \in 1..Len(obj) |-> IF obj[i].key = k THEN [key |-> k, value |-> v] ELSE obj[i]]
    ELSE IF IsArrayIndex(k)
    THEN LET before == SelectSeq(obj, LAMBDA e : IsArrayIndex(e.key) /\ e.key < k)
             after  == SelectSeq(obj, LAMBDA e : ~(IsArrayIndex(e.key) /\ e.key < k))
         IN  before \o <<[key |-> k, value |-> v]>> \o after
    ELSE Append(obj, [key |-> k, value |-> v])

(***************************************************************************)
(* DataUpdater.extractGeoJsonData.  A feature's properties are its zip     *)
(* value, its coordinate, the length of its "name\naddress[\nphone]" text   *)
(* and its podIndex property (Undefined when the feed has none).  The      *)
(* record stored is the properties plus shelterIndex, the 1-based position *)
(* of the feature; distance is the field findShelters adds (NoDistance     *)
(* while absent).                                                          *)
(***************************************************************************)
NoDistance == 0 - 1
Undefined == 0

RECURSIVE extractFrom(_, _, _)
extractFrom(feats, idx, extractedData) ==
    IF idx > Len(feats) THEN extractedData
    ELSE LET val == feats[idx]
             zipData == lookup(val.zip)
         IN  IF ~zipData.undefined
             THEN LET old == IF MapHas(extractedData, zipData.zip)
                             THEN MapGet(extractedData, zipData.zip) ELSE <<>>
                      rec == [zip |-> val.zip, latlon |-> val.latlon, len |-> val.len,
                              podIndex |-> val.podIndex, shelterIndex |-> idx,
                              distance |-> NoDistance]
                  IN  extractFrom(feats, idx + 1,
                                  MapSet(extractedData, zipData.zip, Append(old, rec)))
             ELSE extractFrom(feats, idx + 1, extractedData)

extractGeoJsonData(feats) == extractFrom(feats, 1, <<>>)

(***************************************************************************)
(* Message text.  A token is one piece of a message: the fixed apology,    *)
(* the nothing-found sentence with the codes it names, a "Found n ..."     *)
(* header, or the fragment of one record: its message and its distance     *)
(* suffix, "Under 1mi away" or "About <n>mi away" (id is the record's      *)
(* shelterIndex, d its distance, n the number printed).                    *)
(***************************************************************************)
Token(k, zips, n, id, d, len) ==
    [k |-> k, zips |-> zips, n |-> n, id |-> id, d |-> d, len |-> len]

RECURSIVE StrLen(_)
StrLen(str) == IF str = <<>> THEN 0 ELSE Head(str).len + StrLen(Tail(str))

\* 'Sorry, I couldn\'t find any ZIP codes in your text message. Please try again.'
Apology == <<Token("apology", <<>>, 0, 0, 0, 76)>>

\* sentZipCodes.join(' or ')
JoinLen(zips) == IF zips = <<>> THEN 0 ELSE 5 * Len(zips) + 4 * (Len(zips) - 1)

\* `Sorry, I don't know about any food and water distribution points near
\* ${sentZipCodes.join(' or ')}. Please try again later!`
NothingNear(zips) == <<Token("sorry", zips, 0, 0, 0, 95 + JoinLen(zips))>>

\* `Found ${n} food/water distribution points near ${zipcode}:`
FoundNear(n, zipcode) == <<Token("found", <<zipcode>>, n, 0, 0, 49 + Digits(n))>>

\* `Found ${n} shelters near your location:`
FoundNearYou(n) == <<Token("found", <<>>, n, 0, 0, 35 + Digits(n))>>

\* Math.ceil(a / b) for naturals
Ceil(a, b) == (a + b - 1) \div b

convertMetersToMiles_floor(meters) ==
    IF meters < Mile THEN (10 * meters) \div Mile ELSE 10 * (meters \div Mile)

\* dist = metersToMiles * meters;
\* dist < 1.0 ? Math.ceil(dist * 10) / 10 : Math.ceil(dist), in tenths of a mile
convertMetersToMiles(meters) ==
    IF meters < Mile THEN Ceil(10 * meters, Mile) ELSE 10 * Ceil(meters, Mile)

\* `\n${dist < 1 ? 'Under 1' : `About ${dist}`}mi away`: its length
SuffixLen(dist) == IF dist < 10 THEN 15 ELSE 14 + Digits(dist \div 10)

\* pod.message + the distance suffix, for the distance d of the record
Fragment(msgLen, id, d) ==
    LET dist == convertMetersToMiles(d)
    IN  IF dist < 10
        THEN <<Token("Under", <<>>, 1, id, d, msgLen + SuffixLen(dist))>>
        ELSE <<Token("About", <<>>, dist \div 10, id, d, msgLen + SuffixLen(dist))>>

(***************************************************************************)
(* PODsFinder                                                              *)
(***************************************************************************)
zipCodesWithPODs(locationData) == MapKeys(locationData)

\* Whether zipInfo.zip is read off an undefined lookup result (a TypeError).
augmentThrows(zips) == \E i \in 1..Len(zips) : lookup(Str(zips[i])).undefined

augmentLookupZipCodes(zips, mileRadius) ==
    [i \in 1..Len(zips) |->
        LET zipInfo == lookup(Str(zips[i]))
        IN  [zip |-> zipInfo.zip,
             latlon |-> zipInfo.latlon,
             zipsInMileRadius |-> radius(zipInfo.zip, mileRadius)]]

\* Array.prototype.indexOf(x) >= 0 and includes(x), on an array of strings
Includes(arr, raw) == raw.t = "string" /\ \E i \in 1..Len(arr) : arr[i] = raw.v

computeFoundPODs_knownMajor(lookupZipCodes, knownZipCodes) ==
    Flatten([j \in 1..Len(knownZipCodes) |->
        Flatten([i \in 1..Len(lookupZipCodes) |->
            IF Includes(lookupZipCodes[i].zipsInMileRadius, Str(knownZipCodes[j]))
            THEN <<knownZipCodes[j]>> ELSE <<>>])])

\* lookupZipCodes.forEach((z) => knownZipCodes.forEach((known) => ...push(known)))
computeFoundPODs(lookupZipCodes, knownZipCodes) ==
    Flatten([i \in 1..Len(lookupZipCodes) |->
        SelectSeq(knownZipCodes,
                  LAMBDA known : Includes(lookupZipCodes[i].zipsInMileRadius, Str(known)))])

LookupZips(lookupZipCodes) == {lookupZipCodes[i].zip : i \in 1..Len(lookupZipCodes)}

\* The last lookup of a zip writes distances[zip] and inRadius[zip].
LastIdx(lookupZipCodes, z) ==
    CHOOSE i \in 1..Len(lookupZipCodes) :
        /\ lookupZipCodes[i].zip = z
        /\ \A j \in (i + 1)..Len(lookupZipCodes) : lookupZipCodes[j].zip # z

augmentPODRecord(podRecord, lookupZipCodes) ==
    [zip |-> podRecord.zip, latlon |-> podRecord.latlon, len |-> podRecord.len,
     podIndex |-> podRecord.podIndex, shelterIndex |-> podRecord.shelterIndex,
     distance |-> podRecord.distance,
     distances |-> [z \in LookupZips(lookupZipCodes) |->
         distanceTo(lookupZipCodes[LastIdx(lookupZipCodes, z)].latlon, podRecord.latlon)],
     inRadius |-> [z \in LookupZips(lookupZipCodes) |->
         Includes(lookupZipCodes[LastIdx(lookupZipCodes, z)].zipsInMileRadius,
                  podRecord.zip)],
     message |-> 2 + podRecord.len]

collectPODs(foundPODs, lookupZipCodes, locationData) ==
    Flatten([i \in 1..Len(foundPODs) |->
        IF MapHas(locationData, foundPODs[i])
        THEN LET pods == MapGet(locationData, foundPODs[i])
             IN  [j \in 1..Len(pods) |-> augmentPODRecord(pods[j], lookupZipCodes)]
        ELSE <<>>])

getInRadiusPODs_all(pods, lookupZip) == pods

getInRadiusPODs(pods, lookupZip) ==
    SelectSeq(pods, LAMBDA sh : sh.inRadius[lookupZip])

\* Array.prototype.sort with (a, b) => a.distances[k] - b.distances[k]: the
\* insertion sort the engine uses on short arrays, which keeps ties in order.
RECURSIVE InsertByDistance(_, _, _)
InsertByDistance(sorted, e, k) ==
    IF sorted = <<>> THEN <<e>>
    ELSE LET last == sorted[Len(sorted)]
         IN  IF last.distances[k] - e.distances[k] > 0
             THEN Append(InsertByDistance(SubSeq(sorted, 1, Len(sorted) - 1), e, k), last)
             ELSE Append(sorted, e)

RECURSIVE SortFrom(_, _, _, _)
SortFrom(pods, i, acc, k) ==
    IF i > Len(pods) THEN acc
    ELSE SortFrom(pods, i + 1, InsertByDistance(acc, pods[i], k), k)

sortPODsByDistance_asGiven(pods, lookupZip) == pods

sortPODsByDistance(pods, lookupZip) == SortFrom(pods, 1, <<>>, lookupZip)

truncatePODList_offByOne(pods, amount) == SubSeq(pods, 1, Min(amount + 1, Len(pods)))

\* Array.prototype.slice(0, amount)
truncatePODList(pods, amount) == SubSeq(pods, 1, Min(amount, Len(pods)))

RECURSIVE SortedListsFrom(_, _, _, _, _)
SortedListsFrom(pods, lookups, i, n, results) ==
    IF i > Len(lookups) THEN results
    ELSE LET zip == lookups[i]
             filtered == getInRadiusPODs(pods, zip)
             sorted == sortPODsByDistance(filtered, zip)
             truncated == truncatePODList(sorted, n)
         IN  SortedListsFrom(pods, lookups, i + 1, n, ObjectSet(results, zip, truncated))

sortedPODListsByLookupZip(pods, lookups, podsPerLookup) ==
    SortedListsFrom(pods, lookups, 1, podsPerLookup, <<>>)

RECURSIVE BatchFrom_lateFlush(_, _, _, _, _)
BatchFrom_lateFlush(podsSort, key, i, msgs, resultString) ==
    IF i > Len(podsSort)
    THEN IF StrLen(resultString) > 0 THEN Append(msgs, resultString) ELSE msgs
    ELSE LET pod == podsSort[i]
             msg == Fragment(pod.message, pod.shelterIndex, pod.distances[key])
         IN  IF StrLen(resultString) > MaxSegment
             THEN BatchFrom_lateFlush(podsSort, key, i + 1, Append(msgs, resultString), msg)
             ELSE BatchFrom_lateFlush(podsSort, key, i + 1, msgs, resultString \o msg)

RECURSIVE BatchFrom_noFinalPush(_, _, _, _, _)
BatchFrom_noFinalPush(podsSort, key, i, msgs, resultString) ==
    IF i > Len(podsSort) THEN msgs
    ELSE LET pod == podsSort[i]
             msg == Fragment(pod.message, pod.shelterIndex, pod.distances[key])
         IN  IF StrLen(resultString \o msg) > MaxSegment
             THEN BatchFrom_noFinalPush(podsSort, key, i + 1, Append(msgs, resultString), msg)
             ELSE BatchFrom_noFinalPush(podsSort, key, i + 1, msgs, resultString \o msg)

\* The inner loop of buildMessages over one sorted list, from its i-th record
\* on, with the messages pushed so far and resultString.
RECURSIVE BatchFrom(_, _, _, _, _)
BatchFrom(podsSort, key, i, msgs, resultString) ==
    IF i > Len(podsSort)
    THEN IF StrLen(resultString) > 0 THEN Append(msgs, resultString) ELSE msgs
    ELSE LET pod == podsSort[i]
             msg == Fragment(pod.message, pod.shelterIndex, pod.distances[key])
         IN  IF StrLen(resultString \o msg) > MaxSegment
             THEN BatchFrom(podsSort, key, i + 1, Append(msgs, resultString), msg)
             ELSE BatchFrom(podsSort, key, i + 1, msgs, resultString \o msg)

RECURSIVE BuildFrom(_, _, _)
BuildFrom(sortsObj, i, msgs) ==
    IF i > Len(sortsObj) THEN msgs
    ELSE LET key == sortsObj[i].key
             podsSort == sortsObj[i].value
         IN  BuildFrom(sortsObj, i + 1,
                       BatchFrom(podsSort, key, 1, msgs, FoundNear(Len(podsSort), key)))

buildMessages(sortsObj) == BuildFrom(sortsObj, 1, <<>>)

_dedupeArray_reversed(arr, key) ==
    LET a == Reverse(arr)
        keep == {i \in 1..Len(a) : \A j \in (i + 1)..Len(a) : a[j][key] # a[i][key]}
        RECURSIVE Filter(_)
        Filter(i) == IF i > Len(a) THEN <<>>
                     ELSE IF i \in keep THEN <<a[i]>> \o Filter(i + 1)
                     ELSE Filter(i + 1)
    IN  Filter(1)

_dedupeArray_keepLast(arr, key) ==
    LET keep == {i \in 1..Len(arr) :
                    \A j \in (i + 1)..Len(arr) : arr[j][key] # arr[i][key]}
        RECURSIVE Filter(_)
        Filter(i) == IF i > Len(arr) THEN <<>>
                     ELSE IF i \in keep THEN <<arr[i]>> \o Filter(i + 1)
                     ELSE Filter(i + 1)
    IN  Filter(1)

_dedupeArray_adjacent(arr, key) ==
    LET a == Reverse(arr)
        keep == {i \in 1..Len(a) : i = Len(a) \/ a[i + 1][key] # a[i][key]}
        RECURSIVE Filter(_)
        Filter(i) == IF i > Len(a) THEN <<>>
                     ELSE IF i \in keep THEN <<a[i]>> \o Filter(i + 1)
                     ELSE Filter(i + 1)
    IN  Reverse(Filter(1))

\* _deepCopyArray copies values; _dedupeArray keeps, of the reversed copy, each
\* element no later element of which has the same key, and reverses back.
_deepCopyArray(o) == o

_dedupeArray(arr, key) ==
    LET a == Reverse(_deepCopyArray(arr))
        keep == {i \in 1..Len(a) : \A j \in (i + 1)..Len(a) : a[j][key] # a[i][key]}
        RECURSIVE Filter(_)
        Filter(i) == IF i > Len(a) THEN <<>>
                     ELSE IF i \in keep THEN <<a[i]>> \o Filter(i + 1)
                     ELSE Filter(i + 1)
    IN  Reverse(Filter(1))

\* findPODs: what it returns or throws, with podsArray and sorts as they stand
\* when it ends.
Outcome(t, m, p, s) == [threw |-> t, messages |-> m, podsArray |-> p, sorts |-> s]

\* findPODs from its second statement on.
locatePODs(locationData, mileRadius, sentZipCodes) ==
    IF augmentThrows(sentZipCodes) THEN Outcome(TRUE, <<>>, <<>>, <<>>)
    ELSE LET knownZipCodes == zipCodesWithPODs(locationData)
             lookupZipCodes == augmentLookupZipCodes(sentZipCodes, mileRadius)
             foundPODs == computeFoundPODs(lookupZipCodes, knownZipCodes)
         IN  IF Len(foundPODs) = 0
             THEN Outcome(FALSE, <<NothingNear(sentZipCodes)>>, <<>>, <<>>)
             ELSE LET collected == collectPODs(foundPODs, lookupZipCodes, locationData)
                      deduped == _dedupeArray(collected, "podIndex")
                      sortsObj == sortedPODListsByLookupZip(deduped,
                                     [i \in 1..Len(lookupZipCodes) |-> lookupZipCodes[i].zip],
                                     PodsPerLookup)
                  IN  Outcome(FALSE, buildMessages(sortsObj), deduped, sortsObj)

findPODs_noLengthCheck(locationData, mileRadius, sentZipCodes) ==
    locatePODs(locationData, mileRadius, sentZipCodes)

findPODs(locationData, mileRadius, sentZipCodes) ==
    IF Len(sentZipCodes) = 0 THEN Outcome(FALSE, <<Apology>>, <<>>, <<>>)
    ELSE locatePODs(locationData, mileRadius, sentZipCodes)

(***************************************************************************)
(* SheltersFinder                                                          *)
(***************************************************************************)
\* getAllShelters: the lists of the Map, concatenated in key order
getAllShelters(locationData) ==
    Flatten([i \in 1..Len(locationData) |-> locationData[i].value])

\* addDistanceToCurrentPoint: shelter['distance'] = ...; return shelter
addDistanceToCurrentPoint(currentPoint, shelter) ==
    [shelter EXCEPT !.distance = distanceTo(shelter.latlon, currentPoint)]

\* getShelterDistances returns the stored records themselves, each with its
\* distance written: this is locationData once it has run.
locationDataWithDistances(locationData, currentPoint) ==
    [i \in 1..Len(locationData) |->
        [key |-> locationData[i].key,
         value |-> [j \in 1..Len(locationData[i].value) |->
                      addDistanceToCurrentPoint(currentPoint, locationData[i].value[j])]]]

getShelterDistances(locationData, currentPoint) ==
    getAllShelters(locationDataWithDistances(locationData, currentPoint))

RECURSIVE InsertShelter(_, _)
InsertShelter(sorted, e) ==
    IF sorted = <<>> THEN <<e>>
    ELSE LET last == sorted[Len(sorted)]
         IN  IF last.distance - e.distance > 0
             THEN Append(InsertShelter(SubSeq(sorted, 1, Len(sorted) - 1), e), last)
             ELSE Append(sorted, e)

RECURSIVE SortSheltersFrom(_, _, _)
SortSheltersFrom(shelters, i, acc) ==
    IF i > Len(shelters) THEN acc
    ELSE SortSheltersFrom(shelters, i + 1, InsertShelter(acc, shelters[i]))

truncateShelterList(shelters, amount) == SubSeq(shelters, 1, Min(amount, Len(shelters)))

findClosestNShelters(locationData, currentPoint, maxShelters) ==
    LET shelters_with_distances == getShelterDistances(locationData, currentPoint)
        sorted_shelters == SortSheltersFrom(shelters_with_distances, 1, <<>>)
    IN  truncateShelterList(sorted_shelters, maxShelters)

\* getStringRepresentationForShelter + the distance suffix
constructMessageFromShelter(shelter) ==
    Fragment(1 + shelter.len, shelter.shelterIndex, shelter.distance)

RECURSIVE ReplyFrom(_, _, _, _)
ReplyFrom(shelters, i, msgs, resultString) ==
    IF i > Len(shelters)
    THEN IF StrLen(resultString) > 0 THEN Append(msgs, resultString) ELSE msgs
    ELSE LET msg == constructMessageFromShelter(shelters[i])
         IN  IF StrLen(resultString \o msg) > MaxSegment
             THEN ReplyFrom(shelters, i + 1, Append(msgs, resultString), msg)
             ELSE ReplyFrom(shelters, i + 1, msgs, resultString \o msg)

buildReplyFromShelterList(shelters) ==
    ReplyFrom(shelters, 1, <<>>, FoundNearYou(Len(shelters)))

\* findShelters: what it returns or throws, and locationData as it leaves it.
findShelters(locationData, sentZipCodes) ==
    IF Len(sentZipCodes) = 0
    THEN [threw |-> FALSE, messages |-> <<Apology>>, locationData |-> locationData]
    ELSE LET test_zip_info == lookup(Str(sentZipCodes[1]))
         IN  IF test_zip_info.undefined
             THEN [threw |-> TRUE, messages |-> <<>>, locationData |-> locationData]
             ELSE LET test_zip == test_zip_info.latlon
                      closest_shelters == findClosestNShelters(locationData, test_zip, 3)
                  IN  [threw |-> FALSE,
                       messages |-> buildReplyFromShelterList(closest_shelters),
                       locationData |-> locationDataWithDistances(locationData, test_zip)]

(***************************************************************************)
(* ZipcodeExtractor.  The message is given by the 5-digit sequences the    *)
(* regular expression finds in it, in order.                               *)
(***************************************************************************)
extractThrows(matches) == \E i \in 1..Len(matches) : lookup(Str(matches[i])).undefined

extractMessageZipCodes(matches) ==
    SelectSeq(matches, LAMBDA z : ~lookup(Str(z)).undefined)

(***************************************************************************)
(* The inputs of the model.                                                *)
(***************************************************************************)
\* Features the upstream data holds: one of medium length 1 km from the centre
\* of 70118, a long one in 70471 exactly one mile from the centre of 70118, and
\* a short one 1.5 km from the centre of 70118 whose zip is the number 70118.
Feature(zip, latlon, len) ==
    [zip |-> zip, latlon |-> latlon, len |-> len, podIndex |-> Undefined]

Templates ==
    { Feature(Str(70118), 1000000, 380),
      Feature(Str(70471), Mile, 790),
      Feature(Num(70118), 1500000, 40) }

QueryZips == {70118, 70471, 1001, UnknownZip}

RECURSIVE SeqsUpTo(_, _)
SeqsUpTo(S, n) ==
    IF n = 0 THEN {<<>>}
    ELSE LET shorter == SeqsUpTo(S, n - 1)
         IN  shorter \cup {Append(q, z) : q \in {r \in shorter : Len(r) = n - 1}, z \in S}

Queries == SeqsUpTo(QueryZips, MaxQuery)

\* What the next fetch may find upstream, given the features of the last one.
\* Either no feature of a feed has a podIndex property, or each has its own.
NextFeatures(feats) ==
    {<<>>} \cup {<<[f EXCEPT !.podIndex = p]>> : f \in Templates, p \in {Undefined, 101}}
           \cup {Append(feats, [f EXCEPT !.podIndex =
                                   IF feats[1].podIndex = Undefined THEN Undefined
                                   ELSE 101 + Len(feats)]) :
                    f \in {g \in Templates : Len(feats) \in 1..(MaxFeatures - 1)}}

(***************************************************************************)
(* The server.                                                             *)
(***************************************************************************)
Init ==
    /\ features = <<>>
    /\ sheltersFinder = <<>>
    /\ podsFinder = <<>>
    /\ pc = "idle"
    /\ op = "none"
    /\ sent = <<>>
    /\ threw = FALSE
    /\ messages = <<>>
    /\ podsArray = <<>>
    /\ sorts = <<>>
    /\ inputArr = <<>>
    /\ inputKey = "podIndex"
    /\ out = <<>>
    /\ inFlight = <<>>
    /\ replacedKeys = <<>>
    /\ updater = [updateInProgress |-> FALSE, updates |-> <<>>]
    /\ formatter = [call |-> "none", messages |-> <<>>, returned |-> <<>>]
    /\ extractor = [matches |-> <<>>, called |-> FALSE, threw |-> FALSE, returned |-> <<>>]
    /\ pipeline = [stage |-> "none"]

\* A refresh: the features fetched are extracted and the 'update' handler hands
\* the new Map to the finders.
Update ==
    /\ pc = "idle"
    /\ \E feats \in NextFeatures(features) :
        /\ features' = feats
        /\ sheltersFinder' = extractGeoJsonData(feats)
        /\ podsFinder' = extractGeoJsonData(feats)
    /\ UNCHANGED <<pc, op, sent, threw, messages, podsArray, sorts>>
    /\ UNCHANGED helperVars

\* app.post('/sms'): the reply to a message holding the 5-digit sequences body.
PostSms ==
    /\ pc = "idle"
    /\ \E body \in Queries :
        /\ sent' = body
        /\ IF extractThrows(body)
           THEN /\ threw' = TRUE
                /\ messages' = <<>>
                /\ UNCHANGED sheltersFinder
           ELSE LET sentZipcodes == extractMessageZipCodes(body)
                IN  IF Len(sentZipcodes) = 0
                    THEN /\ threw' = FALSE
                         /\ messages' = <<Apology>>
                         /\ UNCHANGED sheltersFinder
                    ELSE LET r == findShelters(sheltersFinder, sentZipcodes)
                         IN  /\ threw' = r.threw
                             /\ messages' = r.messages
                             /\ sheltersFinder' = r.locationData
    /\ pc' = "replied"
    /\ op' = "sms"
    /\ UNCHANGED <<features, podsFinder, podsArray, sorts>>
    /\ UNCHANGED helperVars

\* sheltersFinder.findShelters(sentZipCodes)
FindShelters ==
    /\ pc = "idle"
    /\ \E sentZipCodes \in Queries :
        LET r == findShelters(sheltersFinder, sentZipCodes)
        IN  /\ sent' = sentZipCodes
            /\ threw' = r.threw
            /\ messages' = r.messages
            /\ sheltersFinder' = r.locationData
    /\ pc' = "replied"
    /\ op' = "findShelters"
    /\ UNCHANGED <<features, podsFinder, podsArray, sorts>>
    /\ UNCHANGED helperVars

\* podsFinder.findPODs(sentZipCodes)
FindPODs ==
    /\ pc = "idle"
    /\ \E sentZipCodes \in Queries :
        LET r == findPODs(podsFinder, MileRadius, sentZipCodes)
        IN  /\ sent' = sentZipCodes
            /\ threw' = r.threw
            /\ messages' = r.messages
            /\ podsArray' = r.podsArray
            /\ sorts' = r.sorts
    /\ pc' = "replied"
    /\ op' = "findPODs"
    /\ UNCHANGED <<features, sheltersFinder, podsFinder>>
    /\ UNCHANGED helperVars

\* The reply has been sent and the call's values are gone.
Deliver ==
    /\ pc = "replied"
    /\ pc' = "idle"
    /\ op' = "none"
    /\ sent' = <<>>
    /\ threw' = FALSE
    /\ messages' = <<>>
    /\ podsArray' = <<>>
    /\ sorts' = <<>>
    /\ UNCHANGED <<features, sheltersFinder, podsFinder>>
    /\ UNCHANGED helperVars

Next == Update \/ PostSms \/ FindShelters \/ FindPODs \/ Deliver

Spec == Init /\ [][Next]_vars

(***************************************************************************)
(* _dedupeArray on its own: a caller holds an array of objects with the    *)
(* fields a and b of the repository's test and no podIndex, and passes it, *)
(* and then what it got back, to _dedupeArray.                             *)
(***************************************************************************)
Objects == [a : {0, 1}, b : {1, 3}, podIndex : {Undefined}]

InitDedupe ==
    /\ features = <<>>
    /\ sheltersFinder = <<>>
    /\ podsFinder = <<>>
    /\ pc = "idle"
    /\ op = "none"
    /\ sent = <<>>
    /\ threw = FALSE
    /\ messages = <<>>
    /\ podsArray = <<>>
    /\ sorts = <<>>
    /\ inputArr \in SeqsUpTo(Objects, MaxArr)
    /\ inputKey \in {"a", "b", "podIndex"}
    /\ out = <<>>
    /\ inFlight = <<>>
    /\ replacedKeys = <<>>
    /\ updater = [updateInProgress |-> FALSE, updates |-> <<>>]
    /\ formatter = [call |-> "none", messages |-> <<>>, returned |-> <<>>]
    /\ extractor = [matches |-> <<>>, called |-> FALSE, threw |-> FALSE, returned |-> <<>>]
    /\ pipeline = [stage |-> "none"]

\* _dedupeArray(arr, key) the first time, _dedupeArray of its result after;
\* reverse() and filter() work on the copy, so the argument stays as it is.
Dedupe ==
    /\ Len(out) < 2
    /\ out' = Append(out, _dedupeArray(IF out = <<>> THEN inputArr ELSE out[Len(out)],
                                       inputKey))
    /\ UNCHANGED <<inputArr, inputKey, inFlight, replacedKeys, updater, formatter, extractor, pipeline>>
    /\ UNCHANGED serverVars

NextDedupe == Dedupe

SpecDedupe == InitDedupe /\ [][NextDedupe]_vars

(***************************************************************************)
(* findPODs in the two parts that read this.locationData, its keys up to   *)
(* computeFoundPODs and its lists from collectPODs on, with the 'update'   *)
(* handler as the other task of the event loop.                            *)
(***************************************************************************)
UpdateMayRun_anytime(running) == TRUE

\* findPODs has no await and no callback: the handler that called it runs to
\* its end before the event loop starts the 'update' handler.
UpdateMayRun(running) == running = "idle"

\* findPODs from collectPODs on, for the foundPODs computed before.
collectAndBuild(locationData, lookupZipCodes, foundPODs) ==
    LET collected == collectPODs(foundPODs, lookupZipCodes, locationData)
        deduped == _dedupeArray(collected, "podIndex")
        sortsObj == sortedPODListsByLookupZip(deduped,
                       [i \in 1..Len(lookupZipCodes) |-> lookupZipCodes[i].zip],
                       PodsPerLookup)
    IN  Outcome(FALSE, buildMessages(sortsObj), deduped, sortsObj)

RECURSIVE updateLocationData_merge(_, _)
updateLocationData_merge(thisLocationData, locationData) ==
    IF locationData = <<>> THEN thisLocationData
    ELSE updateLocationData_merge(
             MapSet(thisLocationData, Head(locationData).key, Head(locationData).value),
             Tail(locationData))

\* updateLocationData (locationData) { this.locationData = locationData; }
updateLocationData(thisLocationData, locationData) == locationData

\* The 'update' handler: updateLocationData(data) on both finders, and the
\* keys of the index podsFinder had.
Refresh ==
    /\ UpdateMayRun(pc)
    /\ \E feats \in NextFeatures(features) :
        /\ features' = feats
        /\ sheltersFinder' = updateLocationData(sheltersFinder, extractGeoJsonData(feats))
        /\ podsFinder' = updateLocationData(podsFinder, extractGeoJsonData(feats))
    /\ replacedKeys' = MapKeys(podsFinder)
    /\ UNCHANGED <<pc, op, sent, threw, messages, podsArray, sorts>>
    /\ UNCHANGED <<dedupeVars, inFlight, updater, formatter, extractor, pipeline>>

\* findPODs up to the test of foundPODs.length
FindPODsStart ==
    /\ pc = "idle"
    /\ \E sentZipCodes \in Queries :
        /\ sent' = sentZipCodes
        /\ op' = "findPODs"
        /\ IF Len(sentZipCodes) = 0 \/ augmentThrows(sentZipCodes)
              \/ Len(computeFoundPODs(augmentLookupZipCodes(sentZipCodes, MileRadius),
                                      zipCodesWithPODs(podsFinder))) = 0
           THEN LET r == findPODs(podsFinder, MileRadius, sentZipCodes)
                IN  /\ pc' = "replied"
                    /\ threw' = r.threw
                    /\ messages' = r.messages
                    /\ podsArray' = r.podsArray
                    /\ sorts' = r.sorts
                    /\ inFlight' = [locationData |-> podsFinder]
           ELSE LET lookupZipCodes == augmentLookupZipCodes(sentZipCodes, MileRadius)
                IN  /\ pc' = "collecting"
                    /\ inFlight' =
                          [locationData |-> podsFinder,
                           lookupZipCodes |-> lookupZipCodes,
                           foundPODs |-> computeFoundPODs(lookupZipCodes,
                                                          zipCodesWithPODs(podsFinder))]
                    /\ UNCHANGED <<threw, messages, podsArray, sorts>>
    /\ UNCHANGED <<features, sheltersFinder, podsFinder, dedupeVars, replacedKeys, updater, formatter, extractor, pipeline>>

\* findPODs from collectPODs to its return
FindPODsFinish ==
    /\ pc = "collecting"
    /\ LET r == collectAndBuild(podsFinder, inFlight.lookupZipCodes, inFlight.foundPODs)
       IN  /\ threw' = r.threw
           /\ messages' = r.messages
           /\ podsArray' = r.podsArray
           /\ sorts' = r.sorts
    /\ pc' = "replied"
    /\ inFlight' = [locationData |-> inFlight.locationData]
    /\ UNCHANGED <<features, sheltersFinder, podsFinder, op, sent, dedupeVars, replacedKeys, updater, formatter, extractor, pipeline>>

\* The reply has been sent.
Respond ==
    /\ pc = "replied"
    /\ pc' = "idle"
    /\ op' = "none"
    /\ sent' = <<>>
    /\ threw' = FALSE
    /\ messages' = <<>>
    /\ podsArray' = <<>>
    /\ sorts' = <<>>
    /\ inFlight' = <<>>
    /\ UNCHANGED <<features, sheltersFinder, podsFinder, dedupeVars, replacedKeys, updater, formatter, extractor, pipeline>>

NextRefresh == Refresh \/ FindPODsStart \/ FindPODsFinish \/ Respond

SpecRefresh == Init /\ [][NextRefresh]_vars

(***************************************************************************)
(* DataUpdater.performUpdate on the main loop.  An update is the request   *)
(* performUpdate started: the response it got (status, content type,       *)
(* whether the body arrives to its end, the features of the body), where   *)
(* the response is, the state of the promise of fetchLocationData, whether *)
(* the then or catch callback has run, and the 'update' events emitted.    *)
(***************************************************************************)
NoResponse == 0
JsonType == "application/json"

UpdaterFeeds == {<<>>, <<Feature(Str(70118), 1000000, 380)>>}

NewUpdate ==
    [statusCode |-> NoResponse, contentType |-> "", body |-> "", features |-> <<>>,
     phase |-> "requested", promise |-> "pending", data |-> <<>>,
     settled |-> FALSE, emitted |-> 0, event |-> <<>>]

handleErrorResponse_always(statusCode, contentType) == "Request Failed."

handleErrorResponse_never(statusCode, contentType) == "null"

\* handleErrorResponse: the error, or null
handleErrorResponse(statusCode, contentType) ==
    IF statusCode # 200 THEN "Request Failed."
    ELSE IF contentType # JsonType THEN "Invalid content-type."
    ELSE "null"

\* A promise has been resolved or rejected and its .then or .catch callback
\* has not run yet: the callback runs before any other event is handled.
CallbackReady ==
    \E i \in 1..Len(updater.updates) :
        /\ updater.updates[i].promise \in {"resolved", "rejected"}
        /\ ~updater.updates[i].settled

\* performUpdate(false): updateInProgress = true; promise = fetchLocationData()
PerformUpdate ==
    /\ ~CallbackReady
    /\ Len(updater.updates) < MaxUpdates
    /\ updater' = [updateInProgress |-> TRUE,
                   updates |-> Append(updater.updates, NewUpdate)]
    /\ UNCHANGED <<serverVars, dedupeVars, inFlight, replacedKeys, formatter, extractor, pipeline>>

\* The callback of https.get: reject(error) on an error response, and in
\* every case the body is piped to the parser.
HttpsGetResponse ==
    /\ ~CallbackReady
    /\ \E i \in 1..Len(updater.updates) :
        /\ updater.updates[i].phase = "requested"
        /\ \E statusCode \in {200, 500}, contentType \in {JsonType, "text/html"},
              body \in {"complete", "aborted"}, feats \in UpdaterFeeds :
            updater' = [updater EXCEPT !.updates[i] =
                [@ EXCEPT !.statusCode = statusCode,
                          !.contentType = contentType,
                          !.body = body,
                          !.features = feats,
                          !.phase = "streaming",
                          !.promise = IF handleErrorResponse(statusCode, contentType) # "null"
                                      THEN "rejected" ELSE "pending"]]
    /\ UNCHANGED <<serverVars, dedupeVars, inFlight, replacedKeys, formatter, extractor, pipeline>>

\* .on('error', (e) => reject(e)) of the request: the connection fails before
\* a response arrives, or breaks while the body is arriving.
HttpsGetError ==
    /\ ~CallbackReady
    /\ \E i \in 1..Len(updater.updates) :
        /\ \/ updater.updates[i].phase = "requested"
           \/ /\ updater.updates[i].phase = "streaming"
              /\ updater.updates[i].body = "aborted"
        /\ updater' = [updater EXCEPT !.updates[i] =
                          [@ EXCEPT !.phase = "error", !.promise = "rejected"]]
    /\ UNCHANGED <<serverVars, dedupeVars, inFlight, replacedKeys, formatter, extractor, pipeline>>

\* res.on('end'): resolve(extractGeoJsonData(features)), which settles the
\* promise only if reject has not.
ResponseEnd ==
    /\ ~CallbackReady
    /\ \E i \in 1..Len(updater.updates) :
        /\ updater.updates[i].phase = "streaming"
        /\ updater.updates[i].body = "complete"
        /\ updater' = [updater EXCEPT !.updates[i] =
              [@ EXCEPT !.phase = "ended",
                        !.promise = IF @ = "pending" THEN "resolved" ELSE @,
                        !.data = IF updater.updates[i].promise = "pending"
                                 THEN extractGeoJsonData(updater.updates[i].features)
                                 ELSE @]]
    /\ UNCHANGED <<serverVars, dedupeVars, inFlight, replacedKeys, formatter, extractor, pipeline>>

\* .then((data) => { this.emit('update', data); this.updateInProgress = false })
\* with the 'update' handler of the server run by emit.
PromiseThen ==
    /\ pc = "idle"
    /\ \E i \in 1..Len(updater.updates) :
        LET u == updater.updates[i]
        IN  /\ u.promise = "resolved" /\ ~u.settled
            /\ updater' = [updateInProgress |-> FALSE,
                           updates |-> [updater.updates EXCEPT ![i] =
                               [@ EXCEPT !.settled = TRUE,
                                         !.emitted = @ + 1,
                                         !.event = u.data]]]
            /\ features' = u.features
            /\ sheltersFinder' = updateLocationData(sheltersFinder, u.data)
            /\ podsFinder' = updateLocationData(podsFinder, u.data)
    /\ UNCHANGED <<pc, op, sent, threw, messages, podsArray, sorts>>
    /\ UNCHANGED <<dedupeVars, inFlight, replacedKeys, formatter, extractor, pipeline>>

\* .catch((e) => { ...; this.updateInProgress = false })
PromiseCatch ==
    /\ \E i \in 1..Len(updater.updates) :
        /\ updater.updates[i].promise = "rejected" /\ ~updater.updates[i].settled
        /\ updater' = [updateInProgress |-> FALSE,
                       updates |-> [updater.updates EXCEPT ![i] =
                                       [@ EXCEPT !.settled = TRUE]]]
    /\ UNCHANGED <<serverVars, dedupeVars, inFlight, replacedKeys, formatter, extractor, pipeline>>

NextUpdater ==
    \/ PerformUpdate
    \/ HttpsGetResponse
    \/ HttpsGetError
    \/ ResponseEnd
    \/ PromiseThen
    \/ PromiseCatch

\* Callbacks that are ready run; whether a response arrives, and whether its
\* body arrives to the end, is up to the network.
SpecUpdater ==
    /\ Init
    /\ [][NextUpdater]_vars
    /\ WF_vars(ResponseEnd)
    /\ WF_vars(PromiseThen)
    /\ WF_vars(PromiseCatch)

(***************************************************************************)
(* TwilioFormatter.  The messages are strings as above; the numbering      *)
(* prefix "[i of n] " is a token of its own (id is i, n is n).             *)
(***************************************************************************)
MaxMessages == 3

\* TwilioFormatter.MAX_MESSAGE_SIZE
MAX_MESSAGE_SIZE == 1600

\* ''.padEnd(n, 'x')
PadEnd(n) == <<Token("x", <<>>, 0, 0, 0, n)>>

\* 'message 1', 'message 2', ...
Message(i) == <<Token("message", <<>>, i, 0, 0, 8 + Digits(i))>>

\* `[${idx + 1} of ${ary.length}] `
NumberPrefix(i, n) == <<Token("prefix", <<>>, n, i, 0, 7 + Digits(i) + Digits(n))>>

Texts ==
    {Message(1), Message(2), PadEnd(MAX_MESSAGE_SIZE), PadEnd(MAX_MESSAGE_SIZE + 1),
     PadEnd(1000) \o Message(1) \o PadEnd(700)}

\* String.prototype.substring(0, end): the first end characters, the whole
\* string if it has no more.
RECURSIVE substring(_, _)
substring(str, end) ==
    IF str = <<>> \/ end <= 0 THEN <<>>
    ELSE IF Head(str).len <= end
         THEN <<Head(str)>> \o substring(Tail(str), end - Head(str).len)
         ELSE <<[Head(str) EXCEPT !.len = end]>>

numberMessages_zeroBased(msgs) ==
    IF Len(msgs) = 1 THEN msgs
    ELSE [idx \in 1..Len(msgs) |-> NumberPrefix(idx - 1, Len(msgs)) \o msgs[idx]]

\* numberMessages (idx below is idx + 1 of the code)
numberMessages(msgs) ==
    IF Len(msgs) = 1 THEN msgs
    ELSE [idx \in 1..Len(msgs) |-> NumberPrefix(idx, Len(msgs)) \o msgs[idx]]

validateMessages_singleSms(msgs) ==
    [i \in 1..Len(msgs) |-> substring(msgs[i], 160)]

validateMessages_offByOne(msgs) ==
    [i \in 1..Len(msgs) |-> substring(msgs[i], MAX_MESSAGE_SIZE + 1)]

\* validateMessages
validateMessages(msgs) ==
    [i \in 1..Len(msgs) |-> substring(msgs[i], MAX_MESSAGE_SIZE)]

\* format: the <Message> elements of the MessagingResponse, in order
format(msgs, number) ==
    IF number THEN validateMessages(numberMessages(msgs))
    ELSE validateMessages(msgs)

InitFormatter ==
    /\ features = <<>>
    /\ sheltersFinder = <<>>
    /\ podsFinder = <<>>
    /\ pc = "idle"
    /\ op = "none"
    /\ sent = <<>>
    /\ threw = FALSE
    /\ messages = <<>>
    /\ podsArray = <<>>
    /\ sorts = <<>>
    /\ inputArr = <<>>
    /\ inputKey = "podIndex"
    /\ out = <<>>
    /\ inFlight = <<>>
    /\ replacedKeys = <<>>
    /\ updater = [updateInProgress |-> FALSE, updates |-> <<>>]
    /\ \E msgs \in SeqsUpTo(Texts, MaxMessages) :
          formatter = [call |-> "none", messages |-> msgs, returned |-> <<>>]
    /\ extractor = [matches |-> <<>>, called |-> FALSE, threw |-> FALSE, returned |-> <<>>]
    /\ pipeline = [stage |-> "none"]

ValidateMessages ==
    /\ formatter.call = "none"
    /\ formatter' = [formatter EXCEPT !.call = "validateMessages",
                                      !.returned = validateMessages(formatter.messages)]
    /\ UNCHANGED <<serverVars, dedupeVars, inFlight, replacedKeys, updater, extractor, pipeline>>

NumberMessages ==
    /\ formatter.call = "none"
    /\ formatter' = [formatter EXCEPT !.call = "numberMessages",
                                      !.returned = numberMessages(formatter.messages)]
    /\ UNCHANGED <<serverVars, dedupeVars, inFlight, replacedKeys, updater, extractor, pipeline>>

Format ==
    /\ formatter.call = "none"
    /\ \E number \in BOOLEAN :
          formatter' = [formatter EXCEPT !.call = IF number THEN "format" ELSE "formatPlain",
                                         !.returned = format(formatter.messages, number)]
    /\ UNCHANGED <<serverVars, dedupeVars, inFlight, replacedKeys, updater, extractor, pipeline>>

NextFormatter ==
    \/ ValidateMessages
    \/ NumberMessages
    \/ Format

SpecFormatter == InitFormatter /\ [][NextFormatter]_vars

(***************************************************************************)
(* ZipcodeExtractor.extractMessageZipCodes on its own.  A message is given *)
(* by the 5-digit sequences the regular expression finds in it, in order.  *)
(***************************************************************************)
MaxMatches == 3

InitExtractor ==
    /\ features = <<>>
    /\ sheltersFinder = <<>>
    /\ podsFinder = <<>>
    /\ pc = "idle"
    /\ op = "none"
    /\ sent = <<>>
    /\ threw = FALSE
    /\ messages = <<>>
    /\ podsArray = <<>>
    /\ sorts = <<>>
    /\ inputArr = <<>>
    /\ inputKey = "podIndex"
    /\ out = <<>>
    /\ inFlight = <<>>
    /\ replacedKeys = <<>>
    /\ updater = [updateInProgress |-> FALSE, updates |-> <<>>]
    /\ formatter = [call |-> "none", messages |-> <<>>, returned |-> <<>>]
    /\ pipeline = [stage |-> "none"]
    /\ \E matches \in SeqsUpTo(QueryZips, MaxMatches) :
          extractor = [matches |-> matches, called |-> FALSE, threw |-> FALSE,
                       returned |-> <<>>]

ExtractMessageZipCodes ==
    /\ ~extractor.called
    /\ extractor' = [extractor EXCEPT
          !.called = TRUE,
          !.threw = extractThrows(extractor.matches),
          !.returned = IF extractThrows(extractor.matches) THEN <<>>
                       ELSE extractMessageZipCodes(extractor.matches)]
    /\ UNCHANGED <<serverVars, dedupeVars, inFlight, replacedKeys, updater, formatter, pipeline>>

NextExtractor == ExtractMessageZipCodes

SpecExtractor == InitExtractor /\ [][NextExtractor]_vars

(***************************************************************************)
(* SheltersFinder, the pipeline over several codes: the functions of       *)
(* shelters_finder.js from zipCodesWithShelters to buildMessages, run in   *)
(* the order of the findShelters that looks up every code sent.            *)
(***************************************************************************)
zipCodesWithShelters(locationData) == MapKeys(locationData)

computeFoundShelters(lookupZipCodes, knownZipCodes) ==
    Flatten([i \in 1..Len(lookupZipCodes) |->
        SelectSeq(knownZipCodes,
                  LAMBDA known : Includes(lookupZipCodes[i].zipsInMileRadius, Str(known)))])

augmentShelterRecord(shelterRecord, lookupZipCodes) ==
    [zip |-> shelterRecord.zip, latlon |-> shelterRecord.latlon, len |-> shelterRecord.len,
     podIndex |-> shelterRecord.podIndex, shelterIndex |-> shelterRecord.shelterIndex,
     distance |-> shelterRecord.distance,
     distances |-> [z \in LookupZips(lookupZipCodes) |->
         distanceTo(lookupZipCodes[LastIdx(lookupZipCodes, z)].latlon, shelterRecord.latlon)],
     inRadius |-> [z \in LookupZips(lookupZipCodes) |->
         Includes(lookupZipCodes[LastIdx(lookupZipCodes, z)].zipsInMileRadius,
                  shelterRecord.zip)],
     message |-> 2 + shelterRecord.len]

collectShelters(foundShelters, lookupZipCodes, locationData) ==
    Flatten([i \in 1..Len(foundShelters) |->
        IF MapHas(locationData, foundShelters[i])
        THEN LET shelters == MapGet(locationData, foundShelters[i])
             IN  [j \in 1..Len(shelters) |-> augmentShelterRecord(shelters[j], lookupZipCodes)]
        ELSE <<>>])

getInRadiusShelters(shelters, lookupZip) ==
    SelectSeq(shelters, LAMBDA sh : sh.inRadius[lookupZip])

sortSheltersByDistance(shelters, lookupZip) == SortFrom(shelters, 1, <<>>, lookupZip)

RECURSIVE SortedShelterListsFrom(_, _, _, _, _)
SortedShelterListsFrom(shelters, lookups, i, n, results) ==
    IF i > Len(lookups) THEN results
    ELSE LET zip == lookups[i]
             filtered == getInRadiusShelters(shelters, zip)
             sorted == sortSheltersByDistance(filtered, zip)
             truncated == truncateShelterList(sorted, n)
         IN  SortedShelterListsFrom(shelters, lookups, i + 1, n,
                                    ObjectSet(results, zip, truncated))

sortedShelterListsByLookupZip(shelters, lookups, sheltersPerLookup) ==
    SortedShelterListsFrom(shelters, lookups, 1, sheltersPerLookup, <<>>)

\* `Found ${n} shelters near ${zipcode}:`
FoundSheltersNear(n, zipcode) == <<Token("found", <<zipcode>>, n, 0, 0, 27 + Digits(n))>>

\* `Sorry, I don't know about any shelters near ${sentZipCodes.join(' or ')}.
\* Please try again later!`
NoSheltersNear(zips) == <<Token("sorry", zips, 0, 0, 0, 69 + JoinLen(zips))>>

\* The inner loop of buildMessages of SheltersFinder is that of PODsFinder.
RECURSIVE BuildSheltersFrom(_, _, _)
BuildSheltersFrom(sortsObj, i, msgs) ==
    IF i > Len(sortsObj) THEN msgs
    ELSE LET key == sortsObj[i].key
             sheltersSort == sortsObj[i].value
         IN  BuildSheltersFrom(sortsObj, i + 1,
                 BatchFrom(sheltersSort, key, 1, msgs,
                           FoundSheltersNear(Len(sheltersSort), key)))

buildSheltersMessages(sortsObj) == BuildSheltersFrom(sortsObj, 1, <<>>)

(***************************************************************************)
(* The pipeline of a finder, stage by stage, on an index and the codes of  *)
(* a message; kind says which finder runs.  Every code sent is one the     *)
(* gazetteer resolves.                                                     *)
(***************************************************************************)
WithPodIndex(feats) == [i \in 1..Len(feats) |-> [feats[i] EXCEPT !.podIndex = 100 + i]]

PipelineFeeds ==
    LET plain == SeqsUpTo(Templates, MaxFeatures)
    IN  plain \cup {WithPodIndex(feats) : feats \in plain}

PipelineQueries ==
    SeqsUpTo({ZipTable[i] : i \in 1..Len(ZipTable)}, MaxQuery) \ {<<>>}

InitPipeline ==
    /\ features = <<>>
    /\ sheltersFinder = <<>>
    /\ podsFinder = <<>>
    /\ pc = "idle"
    /\ op = "none"
    /\ sent = <<>>
    /\ threw = FALSE
    /\ messages = <<>>
    /\ podsArray = <<>>
    /\ sorts = <<>>
    /\ inputArr = <<>>
    /\ inputKey = "podIndex"
    /\ out = <<>>
    /\ inFlight = <<>>
    /\ replacedKeys = <<>>
    /\ updater = [updateInProgress |-> FALSE, updates |-> <<>>]
    /\ formatter = [call |-> "none", messages |-> <<>>, returned |-> <<>>]
    /\ extractor = [matches |-> <<>>, called |-> FALSE, threw |-> FALSE, returned |-> <<>>]
    /\ \E kind \in {"pods", "shelters"}, feats \in PipelineFeeds,
          sentZipCodes \in PipelineQueries :
          pipeline = [stage |-> "start", kind |-> kind,
                      locationData |-> extractGeoJsonData(feats),
                      sentZipCodes |-> sentZipCodes,
                      lookupZipCodes |-> <<>>, found |-> <<>>, array |-> <<>>,
                      sorts |-> <<>>, messages |-> <<>>, formatted |-> <<>>]

PipelineRest == <<serverVars, dedupeVars, inFlight, replacedKeys, updater, formatter, extractor>>

\* knownZipCodes, lookupZipCodes and the candidate codes
ResolveCandidates ==
    /\ pipeline.stage = "start"
    /\ LET lookupZipCodes == augmentLookupZipCodes(pipeline.sentZipCodes, MileRadius)
       IN  pipeline' = [pipeline EXCEPT
              !.stage = "resolved",
              !.lookupZipCodes = lookupZipCodes,
              !.found = IF pipeline.kind = "pods"
                        THEN computeFoundPODs(lookupZipCodes,
                                              zipCodesWithPODs(pipeline.locationData))
                        ELSE computeFoundShelters(lookupZipCodes,
                                                  zipCodesWithShelters(pipeline.locationData))]
    /\ UNCHANGED PipelineRest

\* if (found.length == 0) return [`Sorry, I don't know about any ...`]
NothingFound ==
    /\ pipeline.stage = "resolved"
    /\ Len(pipeline.found) = 0
    /\ pipeline' = [pipeline EXCEPT
          !.stage = "built",
          !.messages = IF pipeline.kind = "pods"
                       THEN <<NothingNear(pipeline.sentZipCodes)>>
                       ELSE <<NoSheltersNear(pipeline.sentZipCodes)>>]
    /\ UNCHANGED PipelineRest

\* The records of the candidate codes, collected and deduplicated.
CollectAndDedupe ==
    /\ pipeline.stage = "resolved"
    /\ Len(pipeline.found) # 0
    /\ pipeline' = [pipeline EXCEPT
          !.stage = "collected",
          !.array = IF pipeline.kind = "pods"
                    THEN _dedupeArray(collectPODs(pipeline.found, pipeline.lookupZipCodes,
                                                  pipeline.locationData), "podIndex")
                    ELSE _dedupeArray(collectShelters(pipeline.found, pipeline.lookupZipCodes,
                                                      pipeline.locationData), "shelterIndex")]
    /\ UNCHANGED PipelineRest

\* sorts = sorted...ListsByLookupZip(array, lookupZipCodes.map((z) => z.zip), 3)
RankPerLookup ==
    /\ pipeline.stage = "collected"
    /\ LET lookups == [i \in 1..Len(pipeline.lookupZipCodes) |->
                          pipeline.lookupZipCodes[i].zip]
       IN  pipeline' = [pipeline EXCEPT
              !.stage = "sorted",
              !.sorts = IF pipeline.kind = "pods"
                        THEN sortedPODListsByLookupZip(pipeline.array, lookups, PodsPerLookup)
                        ELSE sortedShelterListsByLookupZip(pipeline.array, lookups,
                                                           PodsPerLookup)]
    /\ UNCHANGED PipelineRest

\* messages = buildMessages(sorts)
BuildReply ==
    /\ pipeline.stage = "sorted"
    /\ pipeline' = [pipeline EXCEPT
          !.stage = "built",
          !.messages = IF pipeline.kind = "pods"
                       THEN buildMessages(pipeline.sorts)
                       ELSE buildSheltersMessages(pipeline.sorts)]
    /\ UNCHANGED PipelineRest

\* twilioFormatter.format(responseMessages) on the messages of the finder
FormatReply ==
    /\ pipeline.stage = "built"
    /\ pipeline' = [pipeline EXCEPT
          !.stage = "formatted",
          !.formatted = format(pipeline.messages, TRUE)]
    /\ UNCHANGED PipelineRest

NextPipeline ==
    \/ ResolveCandidates
    \/ NothingFound
    \/ CollectAndDedupe
    \/ RankPerLookup
    \/ BuildReply
    \/ FormatReply

SpecPipeline == InitPipeline /\ [][NextPipeline]_vars

(***************************************************************************)
(* Properties.                                                             *)
(***************************************************************************)
Range(s) == {s[i] : i \in 1..Len(s)}

Replied(o) == pc = "replied" /\ op = o

\* A call of one of the three entry points has returned or thrown.
Located == pc = "replied" /\ op \in {"findPODs", "findShelters", "sms"}

\* The ranked result of findPODs for a query code: its list in sorts, or none.
RankedFor(q) == IF MapHas(sorts, q) THEN MapGet(sorts, q) ELSE <<>>

\* The number of deduplicated records in the radius of q.
InRadiusCount(q) ==
    Cardinality({i \in 1..Len(podsArray) : podsArray[i].inRadius[q]})

\* C1: a call with an empty list of postal codes returns exactly one segment,
\* the fixed apology, whatever the index holds.
C1_EmptyQueryApology ==
    (Located /\ sent = <<>>) =>
        /\ ~threw
        /\ Len(messages) = 1
        /\ Len(messages[1]) = 1
        /\ messages[1][1].k = "apology"
        /\ StrLen(messages[1]) = 76

C1_Witness ==
    /\ Replied("findPODs") /\ sent = <<>>
    /\ Len(podsFinder) = 2
    /\ Len(messages) = 1 /\ messages[1][1].k = "apology"

\* C2: every record listed for a query code q has inRadius[q] true.
C2_RankedInRadius ==
    Replied("findPODs") =>
        \A e \in Range(sorts) : \A r \in Range(e.value) : r.inRadius[e.key]

C2_Witness ==
    /\ Replied("findPODs")
    /\ \E e \in Range(sorts) :
        /\ Len(e.value) > 0
        /\ \E r \in Range(podsArray) : ~r.inRadius[e.key]

\* C3: the ranked result of q is in non-decreasing order of distances[q].
C3_RankedAscending ==
    Replied("findPODs") =>
        \A e \in Range(sorts) : \A i \in 1..(Len(e.value) - 1) :
            e.value[i].distances[e.key] <= e.value[i + 1].distances[e.key]

C3_Witness ==
    /\ Replied("findPODs")
    /\ \E e \in Range(sorts) : \E i \in 1..(Len(e.value) - 1) :
        /\ e.value[i].distances[e.key] < e.value[i + 1].distances[e.key]
        /\ e.value[i].shelterIndex > e.value[i + 1].shelterIndex

\* C4: the ranked result of q has min(N, in-radius records) elements, the first
\* of the sorted in-radius list in their order.
C4_TruncatedToN ==
    (Replied("findPODs") /\ ~threw) =>
        \A q \in Range(sent) :
            /\ Len(RankedFor(q)) = Min(PodsPerLookup, InRadiusCount(q))
            /\ LET sorted == sortPODsByDistance(getInRadiusPODs(podsArray, q), q)
               IN  RankedFor(q) = SubSeq(sorted, 1, Len(RankedFor(q)))

C4_Witness ==
    /\ Replied("findPODs") /\ ~threw
    /\ \E q \in Range(sent) :
        /\ InRadiusCount(q) > PodsPerLookup
        /\ Len(RankedFor(q)) = PodsPerLookup
    /\ \E q \in Range(sent) :
        /\ InRadiusCount(q) < PodsPerLookup
        /\ Len(RankedFor(q)) = InRadiusCount(q)

\* The tokens of a reply: a fragment is the text of one record.
IsFragment(tok) == tok.k \in {"Under", "About"}

Segments == 1..Len(messages)

FragmentsOf(i) == {tok \in Range(messages[i]) : IsFragment(tok)}

\* The segments that open with a header or a nothing-found sentence naming q.
SegmentsNaming(q) ==
    {i \in Segments : /\ messages[i][1].k \in {"sorry", "found"}
                      /\ q \in Range(messages[i][1].zips)}

\* The segments that open with the "Found n ..." header of q.
HeadersOf(q) ==
    {i \in Segments : messages[i][1].k = "found" /\ messages[i][1].zips = <<q>>}

\* A group is a header segment and the segments up to the next header.
HeaderIdx == {i \in Segments : messages[i][1].k = "found"}

InGroup(h, i) == h <= i /\ \A g \in HeaderIdx : g <= i => g <= h

RecordsListed(h) ==
    {tok.id : tok \in UNION {FragmentsOf(i) : i \in {j \in Segments : InGroup(h, j)}}}

StoredUnder(index, q) ==
    IF MapHas(index, q) THEN {r.shelterIndex : r \in Range(MapGet(index, q))} ELSE {}

\* A call of a finder has returned or thrown.
Found == pc = "replied" /\ op \in {"findPODs", "findShelters"}

\* C5: for each query code whose ranked result is empty the reply has exactly
\* one segment for that code, and it is the nothing-found sentence naming it,
\* also when other codes of the request have results.
C5_FallbackPerEmptyCode ==
    (Replied("findPODs") /\ ~threw /\ sent # <<>>) =>
        \A q \in Range(sent) :
            RankedFor(q) = <<>> =>
                /\ Cardinality(SegmentsNaming(q)) = 1
                /\ \A i \in SegmentsNaming(q) : messages[i][1].k = "sorry"

\* C6: a call never raises an exception, and with a code the gazetteer cannot
\* resolve in the list the reply still has a segment for every other code.
C6_UnknownCodeSkipped ==
    Found =>
        /\ ~threw
        /\ op = "findPODs" =>
              \A q \in Range(sent) :
                  ~lookup(Str(q)).undefined => SegmentsNaming(q) # {}

\* C7: the groups of segments of the query codes appear in the reply in the
\* order in which the codes were supplied.
C7_GroupsInQueryOrder ==
    (Replied("findPODs") /\ ~threw) =>
        \A i, j \in 1..Len(sent) :
            (i < j /\ sent[i] # sent[j]) =>
                \A a \in HeadersOf(sent[i]), b \in HeadersOf(sent[j]) : a < b

\* A segment that is one single fragment, itself over the budget.
OversizeFragment(i) ==
    /\ Len(messages[i]) = 1
    /\ IsFragment(messages[i][1])
    /\ messages[i][1].len > MaxSegment

\* Segment i was pushed because the next fragment would not fit.
Flushed(i) == i < Len(messages) /\ IsFragment(messages[i + 1][1])

WithinOneFragment(i) ==
    \/ StrLen(messages[i]) <= MaxSegment
    \/ \E tok \in FragmentsOf(i) : StrLen(messages[i]) <= MaxSegment + tok.len

\* C8 as stated: every segment is at most 800 characters unless it is one
\* single fragment itself longer than 800, no segment exceeds 800 plus one
\* fragment, and every segment flushed before a fragment is at most 800.
C8_SegmentBudget ==
    (Found /\ ~threw) =>
        \A i \in Segments :
            /\ StrLen(messages[i]) <= MaxSegment \/ OversizeFragment(i)
            /\ WithinOneFragment(i)
            /\ Flushed(i) => StrLen(messages[i]) <= MaxSegment

\* C8: every segment, flushed or last, is at most 800 characters unless it is
\* one single fragment itself longer than 800, and no segment exceeds 800 plus
\* one fragment.
C8_SegmentBudgetButOversize ==
    (Found /\ ~threw) =>
        \A i \in Segments :
            /\ StrLen(messages[i]) <= MaxSegment \/ OversizeFragment(i)
            /\ WithinOneFragment(i)
            /\ Flushed(i) => (StrLen(messages[i]) <= MaxSegment \/ OversizeFragment(i))

C8_Witness ==
    /\ Found /\ ~threw
    /\ \E i \in Segments : Flushed(i) /\ OversizeFragment(i)
    /\ \E i \in Segments :
        /\ Flushed(i) /\ Len(messages[i]) >= 2
        /\ StrLen(messages[i]) <= MaxSegment
        /\ StrLen(messages[i] \o messages[i + 1]) > MaxSegment

\* C9 as stated: a record at d meters is printed "Under 1mi away" if d is less
\* than a mile and "About <n>mi away" with n the miles rounded up otherwise.
C9_DistanceSuffix ==
    (Found /\ ~threw) =>
        \A i \in Segments : \A tok \in FragmentsOf(i) :
            IF tok.d < Mile
            THEN tok.k = "Under" /\ tok.n = 1
            ELSE tok.k = "About" /\ tok.n = Ceil(tok.d, Mile)

\* C9: a record at d meters is printed "Under 1mi away" if d is at most 0.9
\* mile and "About <n>mi away" with n the miles rounded up otherwise.
C9_DistanceSuffixTenths ==
    (Found /\ ~threw) =>
        \A i \in Segments : \A tok \in FragmentsOf(i) :
            IF tok.d < Mile /\ 10 * tok.d <= 9 * Mile
            THEN tok.k = "Under" /\ tok.n = 1
            ELSE tok.k = "About" /\ tok.n = Ceil(tok.d, Mile)

C9_Witness ==
    /\ Found /\ ~threw
    /\ \E i, j, l \in Segments :
        /\ \E tok \in FragmentsOf(i) : tok.d = 1000000 /\ tok.k = "Under"
        /\ \E tok \in FragmentsOf(j) : tok.d = Mile /\ tok.k = "About" /\ tok.n = 1
        /\ \E tok \in FragmentsOf(l) :
               tok.d < Mile /\ 10 * tok.d > 9 * Mile /\ tok.k = "About" /\ tok.n = 1

\* The index a finder reads.
IndexOf(o) == IF o = "findPODs" THEN podsFinder ELSE sheltersFinder

\* Group h of the reply answers q: its header names q, or no code, and it
\* lists a record stored under q.
AnswersCode(h, q) ==
    /\ messages[h][1].zips \in {<<>>, <<q>>}
    /\ RecordsListed(h) \cap StoredUnder(IndexOf(op), q) # {}

\* C10: when the index holds records only under A and B, no more than the
\* maximum per query, the reply to the query [A, B] has a group for A listing
\* a record stored under A and another group for B listing one stored under B.
C10_EveryCodeAnswered ==
    (/\ Found /\ ~threw
     /\ Len(sent) = 2 /\ sent[1] # sent[2]
     /\ Range(MapKeys(IndexOf(op))) = Range(sent)
     /\ Len(getAllShelters(IndexOf(op))) <= PodsPerLookup) =>
        \E h1, h2 \in HeaderIdx :
            /\ h1 # h2
            /\ AnswersCode(h1, sent[1])
            /\ AnswersCode(h2, sent[2])

\* The elements of s at the positions in S, in their order in s.
RECURSIVE Pick(_, _)
Pick(s, S) ==
    IF s = <<>> THEN <<>>
    ELSE Pick(SubSeq(s, 1, Len(s) - 1), S) \o (IF Len(s) \in S THEN <<s[Len(s)]>> ELSE <<>>)

\* The identity values of the input, and the positions of inputArr that hold one.
KeyValues == {inputArr[i][inputKey] : i \in 1..Len(inputArr)}

Holding(v) == {i \in 1..Len(inputArr) : inputArr[i][inputKey] = v}

FirstOf(v) == CHOOSE i \in Holding(v) : \A j \in Holding(v) : i <= j

LastOf(v) == CHOOSE i \in Holding(v) : \A j \in Holding(v) : j <= i

\* C11: deduplicating the result of a deduplication returns the same list.
C11_DedupeIdempotent == Len(out) = 2 => out[2] = out[1]

C11_Witness ==
    /\ Len(out) = 2
    /\ Len(out[1]) >= 2 /\ Len(out[1]) < Len(inputArr)
    /\ out[2] = out[1]

\* C12 as stated: of the records that share an identity value exactly one
\* survives, and it is the one that appeared last in the input.
C12_LastSurvives ==
    Len(out) >= 1 =>
        \A v \in KeyValues :
            /\ Cardinality({i \in 1..Len(out[1]) : out[1][i][inputKey] = v}) = 1
            /\ \E i \in 1..Len(out[1]) : out[1][i] = inputArr[LastOf(v)]

\* C12: of the records that share an identity value exactly one survives, and
\* it is the one that appeared first in the input.
C12_FirstSurvives ==
    Len(out) >= 1 =>
        \A v \in KeyValues :
            /\ Cardinality({i \in 1..Len(out[1]) : out[1][i][inputKey] = v}) = 1
            /\ \E i \in 1..Len(out[1]) : out[1][i] = inputArr[FirstOf(v)]

C12_Witness ==
    /\ Len(out) >= 1
    /\ \E v \in KeyValues :
        /\ inputArr[FirstOf(v)] # inputArr[LastOf(v)]
        /\ \E i \in 1..Len(out[1]) : out[1][i] = inputArr[FirstOf(v)]
        /\ \A i \in 1..Len(out[1]) : out[1][i] # inputArr[LastOf(v)]

\* The positions of the input whose identity value no earlier position has.
FirstOccurrences == {FirstOf(v) : v \in KeyValues}

\* C20: _dedupeArray returns the first occurrences of the key values of arr in
\* their order in arr, one element per distinct key value, and the call
\* leaves arr as it was.
C20_FirstOccurrencesInOrder ==
    /\ [](Len(out) >= 1 =>
            /\ out[1] = Pick(inputArr, FirstOccurrences)
            /\ Len(out[1]) = Cardinality(KeyValues))
    /\ [][Dedupe => inputArr' = inputArr]_vars

C20_Witness ==
    /\ Len(out) >= 1
    /\ Len(out[1]) >= 2 /\ Len(out[1]) < Len(inputArr)
    /\ inputArr[Len(inputArr)][inputKey] # inputArr[1][inputKey]
    /\ \E i \in 2..(Len(inputArr) - 1) : inputArr[i][inputKey] = inputArr[1][inputKey]
    /\ out[1] = Pick(inputArr, FirstOccurrences)

\* C13: a call of a finder, or a request, leaves both indexes as they were:
\* same keys, same lists, every record with the fields and values it had.
C13_IndexUnchanged ==
    [][(pc = "idle" /\ pc' = "replied") =>
          (sheltersFinder' = sheltersFinder /\ podsFinder' = podsFinder)]_vars

\* C14: the reply of a findPODs call is the one findPODs computes from the
\* index the call started with: the candidate codes and the records expanded
\* come from one snapshot, whatever refresh is pending.
C14_SingleSnapshot ==
    Replied("findPODs") =>
        LET r == findPODs(inFlight.locationData, MileRadius, sent)
        IN  /\ threw = r.threw
            /\ messages = r.messages
            /\ podsArray = r.podsArray

C14_Witness ==
    /\ Replied("findPODs") /\ ~threw
    /\ inFlight.locationData = podsFinder
    /\ Len(podsFinder) = 2
    /\ Len(podsArray) >= 2
    /\ \E i \in Segments : FragmentsOf(i) # {}

\* C15: after updateLocationData(d) the index of the finder is d, and a
\* findPODs call gives the reply computed from d alone, whatever the index
\* it replaced held.
C15_ReplyFromLatestIndex ==
    /\ podsFinder = extractGeoJsonData(features)
    /\ Replied("findPODs") =>
          LET r == findPODs(extractGeoJsonData(features), MileRadius, sent)
          IN  /\ threw = r.threw
              /\ messages = r.messages
              /\ \A i \in Segments : \A tok \in FragmentsOf(i) :
                     \E e \in Range(extractGeoJsonData(features)) :
                         \E rec \in Range(e.value) : rec.shelterIndex = tok.id

C15_Witness ==
    /\ Replied("findPODs") /\ ~threw /\ sent # <<>>
    /\ \E k \in Range(replacedKeys) :
        /\ ~MapHas(podsFinder, k)
        /\ k \in Range(radius(sent[1], MileRadius))
    /\ \E i \in Segments : FragmentsOf(i) # {}

(***************************************************************************)
(* C16: performUpdate and the 'update' event.                              *)
(***************************************************************************)
FetchSucceeds(i) ==
    /\ i <= Len(updater.updates)
    /\ updater.updates[i].statusCode = 200
    /\ updater.updates[i].contentType = JsonType

BodyReceived(i) ==
    /\ i <= Len(updater.updates)
    /\ updater.updates[i].body = "complete"

Emitted(i) ==
    /\ i <= Len(updater.updates)
    /\ updater.updates[i].emitted = 1

\* Never more than one event per update; the event carries the index built
\* from the features of the response, a Map from postal code to record list.
EventIsTheBuiltIndex ==
    \A i \in 1..Len(updater.updates) :
        LET u == updater.updates[i]
        IN  /\ u.emitted <= 1
            /\ u.emitted = 1 =>
                /\ u.event = extractGeoJsonData(u.features)
                /\ \A j \in 1..Len(u.event) :
                      \A k \in 1..Len(u.event[j].value) :
                          lookup(u.event[j].value[k].zip).zip = u.event[j].key

\* The step that emits the event leaves updateInProgress false.
EmitClearsFlag ==
    (\E i \in 1..Len(updater.updates) :
        updater'.updates[i].emitted > updater.updates[i].emitted)
    => updater'.updateInProgress = FALSE

\* C16 as stated: every performUpdate whose fetch gets status 200 with a
\* JSON content type eventually emits exactly one 'update' event carrying
\* the newly built index, and updateInProgress is false once it is emitted.
C16_SuccessfulFetchEmits ==
    /\ \A i \in 1..MaxUpdates : FetchSucceeds(i) ~> Emitted(i)
    /\ []EventIsTheBuiltIndex
    /\ [][EmitClearsFlag]_vars

\* C16, amended: the same for every performUpdate whose fetch gets status
\* 200 with a JSON content type and whose response body is received to its
\* end.
C16_CompletedFetchEmits ==
    /\ \A i \in 1..MaxUpdates : (FetchSucceeds(i) /\ BodyReceived(i)) ~> Emitted(i)
    /\ []EventIsTheBuiltIndex
    /\ [][EmitClearsFlag]_vars

\* Two overlapping updates: one has emitted its event with a non-empty
\* index and cleared the flag while the other is still in flight.
C16_Witness ==
    /\ Len(updater.updates) = 2
    /\ \E i \in 1..2 :
        /\ FetchSucceeds(i) /\ BodyReceived(i) /\ Emitted(i)
        /\ updater.updates[i].event # <<>>
        /\ podsFinder = updater.updates[i].event
        /\ updater.updates[3 - i].phase = "streaming"
    /\ updater.updateInProgress = FALSE


(***************************************************************************)
(* C17, C18: TwilioFormatter.                                              *)
(***************************************************************************)
Called(name) == formatter.call = name

\* res holds the first characters of msg: whole tokens of msg and then the
\* leading part of the next one.
IsPrefixOf(res, msg) ==
    \/ res = <<>>
    \/ \E j \in 1..Len(msg) : \E n \in 1..msg[j].len :
          res = SubSeq(msg, 1, j - 1) \o <<[msg[j] EXCEPT !.len = n]>>

\* C17: validateMessages returns as many messages as it was given, in the
\* same order: each is the input message itself when that has at most 1600
\* characters and its first 1600 characters otherwise, so none is longer
\* than 1600.
C17_ValidateTruncates ==
    Called("validateMessages") =>
        /\ Len(formatter.returned) = Len(formatter.messages)
        /\ \A i \in 1..Len(formatter.messages) :
            LET msg == formatter.messages[i]
                res == formatter.returned[i]
            IN  /\ StrLen(msg) <= 1600 => res = msg
                /\ StrLen(msg) > 1600 =>
                      /\ StrLen(res) = 1600
                      /\ IsPrefixOf(res, msg)
                /\ StrLen(res) <= 1600

\* A message cut in the middle, next to messages returned whole.
C17_Witness ==
    /\ Called("validateMessages")
    /\ Len(formatter.messages) = 3
    /\ \E i, j, k \in 1..3 :
        /\ StrLen(formatter.messages[i]) = 1601
        /\ StrLen(formatter.returned[i]) = 1600
        /\ Len(formatter.messages[j]) = 3
        /\ StrLen(formatter.messages[j]) > 1600
        /\ Len(formatter.returned[j]) = 3
        /\ StrLen(formatter.messages[k]) <= 1600
        /\ formatter.returned[k] = formatter.messages[k]

\* C18: numberMessages returns a list of exactly one message unchanged, and
\* for n > 1 messages returns n messages in the same order, the i-th
\* prefixed with "[i of n] ".
C18_NumberPrefixes ==
    Called("numberMessages") =>
        LET n == Len(formatter.messages)
        IN  /\ n = 1 => formatter.returned = formatter.messages
            /\ n > 1 =>
                /\ Len(formatter.returned) = n
                /\ \A i \in 1..n :
                    /\ Head(formatter.returned[i]) =
                          [k |-> "prefix", zips |-> <<>>, n |-> n, id |-> i, d |-> 0,
                           len |-> 7 + Digits(i) + Digits(n)]
                    /\ Tail(formatter.returned[i]) = formatter.messages[i]

C18_Witness ==
    /\ Called("numberMessages")
    /\ formatter.messages = <<Message(1), Message(2), Message(1)>>
    /\ Len(formatter.returned) = 3
    /\ Head(formatter.returned[3]).id = 3
    /\ StrLen(formatter.returned[3]) = 18

(***************************************************************************)
(* C19: ZipcodeExtractor.extractMessageZipCodes.                           *)
(***************************************************************************)
\* C19: extractMessageZipCodes returns, in order, exactly the 5-digit
\* sequences of the message that the gazetteer resolves; a sequence it does
\* not resolve (00000) is left out without the call failing, and a message
\* with no valid code yields the empty list.
C19_ExtractsResolvedCodes ==
    extractor.called =>
        /\ ~extractor.threw
        /\ extractor.returned =
              SelectSeq(extractor.matches, LAMBDA z : InTable(Str(z)))

(***************************************************************************)
(* C21: what deduplication leaves for each query.                          *)
(***************************************************************************)
\* The records of the index stored under codes of the radius set of q.
ReachableFrom(index, q) ==
    UNION {StoredUnder(index, k) : k \in Range(radius(q, MileRadius))}

\* The records findPODs ranks for q before truncation.
CandidatesFor(q) ==
    {r.shelterIndex : r \in Range(getInRadiusPODs(podsArray, q))}

\* C21: after resolution, collection and deduplication the distinct records
\* ranked for a query q, before truncation, are exactly the records stored in
\* the index under the codes that are keys of the index and in the radius set
\* of q.
C21_DedupeLosesNothing ==
    (Replied("findPODs") /\ ~threw /\ sorts # <<>>) =>
        \A q \in Range(sent) : CandidatesFor(q) = ReachableFrom(podsFinder, q)

(***************************************************************************)
(* C22: the zip of a stored record and its key.                            *)
(***************************************************************************)
\* C22: in every index built by extractGeoJsonData the zip field of each
\* stored record equals, in value and type, the key the record is stored
\* under (the keys are strings).
C22_RecordZipIsKey ==
    podsFinder = extractGeoJsonData(features) =>
        \A i \in 1..Len(podsFinder) :
            \A j \in 1..Len(podsFinder[i].value) :
                podsFinder[i].value[j].zip = Str(podsFinder[i].key)

(***************************************************************************)
(* C23: the candidate resolver.                                            *)
(***************************************************************************)
Resolved == pipeline.stage \in {"resolved", "collected", "sorted", "built", "formatted"}

PipelineKeys == MapKeys(pipeline.locationData)

\* The pairs of a query position and a key position where the key is in the
\* radius set of the query code, and their order: by query, then by key.
ResolverPairs ==
    {p \in (1..Len(pipeline.sentZipCodes)) \X (1..Len(PipelineKeys)) :
        PipelineKeys[p[2]] \in Range(radius(pipeline.sentZipCodes[p[1]], MileRadius))}

PairBefore(p, q) == p[1] < q[1] \/ (p[1] = q[1] /\ p[2] < q[2])

PairRank(p) == 1 + Cardinality({q \in ResolverPairs : PairBefore(q, p)})

\* C23: the candidate list is what visiting the lookups in query order and,
\* within each, the known codes in index-key order gives when a known code
\* is emitted exactly if it is in the radius set of the lookup: one entry
\* per query that reaches a known code, none for any other code.
C23_CandidateResolver ==
    Resolved =>
        /\ Len(pipeline.found) = Cardinality(ResolverPairs)
        /\ \A p \in ResolverPairs : pipeline.found[PairRank(p)] = PipelineKeys[p[2]]
        /\ \A k \in Range(pipeline.found) :
              /\ k \in Range(PipelineKeys)
              /\ \E i \in 1..Len(pipeline.sentZipCodes) :
                    k \in Range(radius(pipeline.sentZipCodes[i], MileRadius))

\* Two codes that reach the same two keys: each key is emitted once per code.
C23_Witness ==
    /\ pipeline.stage = "resolved"
    /\ pipeline.kind = "shelters"
    /\ pipeline.sentZipCodes = <<70471, 70118>>
    /\ pipeline.found = <<70118, 70471, 70118, 70471>>

(***************************************************************************)
(* C24: the segments of one query, concatenated.                           *)
(***************************************************************************)
Built == pipeline.stage \in {"built", "formatted"} /\ pipeline.sorts # <<>>

\* The segments that open with the header of q, and the segments of the
\* group that header h opens: those up to the next header.
PipelineHeaders(q) ==
    {i \in 1..Len(pipeline.messages) :
        pipeline.messages[i][1].k = "found" /\ pipeline.messages[i][1].zips = <<q>>}

GroupEnd(h) ==
    CHOOSE e \in h..Len(pipeline.messages) :
        /\ \A i \in (h + 1)..e : pipeline.messages[i][1].k # "found"
        /\ e < Len(pipeline.messages) => pipeline.messages[e + 1][1].k = "found"

GroupText(h) == Flatten(SubSeq(pipeline.messages, h, GroupEnd(h)))

\* The text of the ranked list of q: the fragment of each record in turn.
RankedText(q, ranked) ==
    Flatten([i \in 1..Len(ranked) |->
                Fragment(ranked[i].message, ranked[i].shelterIndex, ranked[i].distances[q])])

\* C24: for each query whose ranked result holds N >= 1 records the segments
\* of the query, concatenated in order, are the header "Found N <kind> near
\* <code>:" followed by the fragments of the N records in rank order, each
\* whole within one segment, the last segment included.
C24_SegmentsConcatenate ==
    Built =>
        \A e \in Range(pipeline.sorts) :
            Len(e.value) >= 1 =>
                /\ Cardinality(PipelineHeaders(e.key)) = 1
                /\ \A h \in PipelineHeaders(e.key) :
                    LET text == GroupText(h)
                    IN  /\ Head(text).n = Len(e.value)
                        /\ Head(text).len = (IF pipeline.kind = "pods" THEN 49 ELSE 27)
                                            + Digits(Len(e.value))
                        /\ Tail(text) = RankedText(e.key, e.value)

\* Three ranked records whose fragments do not fit one segment.
C24_Witness ==
    /\ pipeline.stage = "built"
    /\ pipeline.kind = "shelters"
    /\ \E e \in Range(pipeline.sorts) :
        /\ Len(e.value) = 3
        /\ \E h \in PipelineHeaders(e.key) :
            /\ GroupEnd(h) > h
            /\ StrLen(pipeline.messages[GroupEnd(h)]) < MaxSegment

(***************************************************************************)
(* C29: the ranked result holds the nearest records in radius.             *)
(***************************************************************************)
Ranked == pipeline.stage \in {"sorted", "built", "formatted"} /\ pipeline.sorts # <<>>

\* The deduplicated records in the radius of q that the result of q lacks.
LeftOut(q, ranked) ==
    {r \in Range(pipeline.array) :
        /\ r.inRadius[q]
        /\ \A i \in 1..Len(ranked) : ranked[i].shelterIndex # r.shelterIndex}

\* C29: no deduplicated record in the radius of q that is left out of the
\* ranked result of q is strictly closer to q than a record of the result.
C29_NearestAreRanked ==
    Ranked =>
        \A e \in Range(pipeline.sorts) :
            \A r \in LeftOut(e.key, e.value) :
                \A i \in 1..Len(e.value) :
                    ~(r.distances[e.key] < e.value[i].distances[e.key])

\* A record is left out that was collected before a nearer one, which is in
\* the result.
C29_Witness ==
    /\ pipeline.stage = "sorted"
    /\ \E e \in Range(pipeline.sorts) :
        /\ Len(e.value) = PodsPerLookup
        /\ \E r \in LeftOut(e.key, e.value) :
            /\ r = pipeline.array[1]
            /\ r.distances[e.key] > e.value[1].distances[e.key]

(***************************************************************************)
(* C30: the reply of the batcher through TwilioFormatter.format.           *)
(***************************************************************************)
Formatted == pipeline.stage = "formatted"

FragmentsWithinBudget ==
    \A i \in 1..Len(pipeline.messages) :
        \A tok \in Range(pipeline.messages[i]) : IsFragment(tok) => tok.len <= 800

\* C30: when every fragment of a reply of the batcher has at most 800
\* characters, format with numbering returns every segment in full: with
\* its "[i of n] " prefix no message is longer than 1600 characters and
\* validateMessages cuts nothing off.
C30_NumberedReplyInFull ==
    (Formatted /\ FragmentsWithinBudget) =>
        LET n == Len(pipeline.messages)
        IN  /\ Len(pipeline.formatted) = n
            /\ \A i \in 1..n :
                /\ StrLen(pipeline.formatted[i]) <= 1600
                /\ n = 1 => pipeline.formatted[i] = pipeline.messages[i]
                /\ n > 1 =>
                    /\ Head(pipeline.formatted[i]).k = "prefix"
                    /\ Head(pipeline.formatted[i]).id = i
                    /\ Head(pipeline.formatted[i]).n = n
                    /\ Head(pipeline.formatted[i]).len = 7 + Digits(i) + Digits(n)
                    /\ Tail(pipeline.formatted[i]) = pipeline.messages[i]

\* A numbered reply with a segment filled almost to the budget.
C30_Witness ==
    /\ Formatted
    /\ FragmentsWithinBudget
    /\ Len(pipeline.messages) >= 3
    /\ \E i \in 1..Len(pipeline.messages) :
        /\ StrLen(pipeline.messages[i]) > 790
        /\ StrLen(pipeline.formatted[i]) = StrLen(pipeline.messages[i]) + 9

(***************************************************************************)
(* C25: a record in the radius of two query codes.                         *)
(***************************************************************************)
\* The stored records whose key is in the radius sets of both q1 and q2.
SharedBy(q1, q2) ==
    UNION {Range(MapGet(podsFinder, k)) :
              k \in {c \in Range(MapKeys(podsFinder)) :
                        /\ c \in Range(radius(q1, MileRadius))
                        /\ c \in Range(radius(q2, MileRadius))}}

\* rec is a candidate of the ranking of q, with its distance to q.
CandidateWithDistance(rec, q) ==
    \E r \in Range(getInRadiusPODs(podsArray, q)) :
        /\ r.shelterIndex = rec.shelterIndex
        /\ r.distances[q] = distanceTo(Centroid(q), rec.latlon)

\* C25: a record whose code is in the radius sets of two different query
\* codes of one request is, after deduplication, a candidate of the ranking
\* of each of the two, with its distance to that query's own coordinate, and
\* each ranked result is computed from the same deduplicated array.
C25_SharedRecordKeptForBoth ==
    (Replied("findPODs") /\ ~threw /\ sorts # <<>>) =>
        \A q1, q2 \in Range(sent) :
            q1 # q2 =>
                /\ \A rec \in SharedBy(q1, q2) :
                      CandidateWithDistance(rec, q1) /\ CandidateWithDistance(rec, q2)
                /\ \A q \in {q1, q2} :
                      RankedFor(q) = truncatePODList(
                          sortPODsByDistance(getInRadiusPODs(podsArray, q), q), PodsPerLookup)

(***************************************************************************)
(* C26: a refresh that fails.                                              *)
(***************************************************************************)
\* The request of update i ended in an error event, or its response has a
\* status other than 200 or a content type that is not JSON.
RefreshFailed(i) ==
    /\ i <= Len(updater.updates)
    /\ \/ updater.updates[i].phase = "error"
       \/ /\ updater.updates[i].phase \in {"streaming", "ended"}
          /\ \/ updater.updates[i].statusCode # 200
             \/ updater.updates[i].contentType # "application/json"

RefreshSettled(i) ==
    /\ i <= Len(updater.updates)
    /\ updater.updates[i].settled

NoEventForFailed ==
    \A i \in 1..Len(updater.updates) : RefreshFailed(i) => updater.updates[i].emitted = 0

\* The finders get another index only through the event of a refresh that
\* did not fail.
IndexKeptUnlessEvent ==
    (podsFinder' # podsFinder \/ sheltersFinder' # sheltersFinder) =>
        \E i \in 1..Len(updater.updates) :
            /\ ~RefreshFailed(i)
            /\ updater'.updates[i].emitted = updater.updates[i].emitted + 1

\* The callback that ends an update leaves updateInProgress false.
SettlingClearsFlag ==
    (\E i \in 1..Len(updater.updates) :
        updater'.updates[i].settled /\ ~updater.updates[i].settled)
    => updater'.updateInProgress = FALSE

\* A failed refresh does not keep the next performUpdate from starting.
\* once its callback has run: performUpdate reads neither the flag nor the
\* outcome of an earlier refresh.
NextRefreshAttempted ==
    \A i \in 1..MaxUpdates :
        (RefreshFailed(i) /\ Len(updater.updates) < MaxUpdates) ~> ENABLED PerformUpdate

\* C26: when a refresh fails (network error, status other than 200, content
\* type that is not JSON) no 'update' event is emitted for it, the finders
\* keep the index they had, updateInProgress returns to false, and the
\* refreshes scheduled afterwards are still attempted.
C26_FailedRefreshHandled ==
    /\ []NoEventForFailed
    /\ [][IndexKeptUnlessEvent]_vars
    /\ \A i \in 1..MaxUpdates : RefreshFailed(i) ~> RefreshSettled(i)
    /\ [][SettlingClearsFlag]_vars
    /\ NextRefreshAttempted

\* A first refresh installed an index; the second got status 500 and has
\* ended: the index of the first is still installed.
C26_Witness ==
    /\ Len(updater.updates) = 2
    /\ updater.updates[1].emitted = 1
    /\ updater.updates[1].event # <<>>
    /\ RefreshFailed(2)
    /\ updater.updates[2].statusCode = 500
    /\ updater.updates[2].settled
    /\ updater.updates[2].emitted = 0
    /\ podsFinder = updater.updates[1].event
    /\ ~updater.updateInProgress

(***************************************************************************)
(* C27: refreshes that overlap.                                            *)
(***************************************************************************)
\* Update i emits its 'update' event in this step.
EmitsNow(i) ==
    updater'.updates[i].emitted > updater.updates[i].emitted

\* C27: the index installed in the finders is never replaced by the data of
\* a refresh that started earlier than the refresh whose data is installed:
\* no update emits its event once an update started after it has emitted.
C27_OlderNeverOverwrites ==
    [][\A i \in 1..Len(updater.updates) :
          EmitsNow(i) =>
              \A j \in (i + 1)..Len(updater.updates) :
                  updater.updates[j].emitted = 0]_vars

(***************************************************************************)
(* C28: a request at any moment relative to the refreshes.                 *)
(***************************************************************************)
\* C28: every /sms request receives a reply holding at least one text
\* message, whatever index is installed when it arrives, the initial empty
\* one included: the handler does not fail.
C28_EverySmsAnswered ==
    Replied("sms") =>
        /\ ~threw
        /\ Len(messages) >= 1

====
